---- MODULE Spec2Model ----
(***************************************************************************)
(* A model of the mcpdbg relay: the connecting role (class                 *)
(* MCPDebuggerServer, mcp-server/src/index.ts) and the listening role (the *)
(* VS Code extension).  One action is one JavaScript macrotask together    *)
(* with the promise continuations (microtasks) it releases.                *)
(***************************************************************************)
EXTENDS Integers, Sequences, FiniteSets, TLC

\* ------------------------------------------------------------ bounds

\* sendRequest calls made over the lifetime of the connecting role
MaxRequests == 2
\* distinct values Math.random().toString(36).substring(7) can yield
MaxIds == 2
\* events replayed into the Session State Cache
MaxEvents == 3
\* peers that connect to the listening role
MaxPeers == 2
\* frames the listening role receives
MaxFrames == 2
\* ports the listening role may draw for its server
MaxPorts == 2

\* --------------------------------------------------- program constants

\* JavaScript null / a cleared timer
Null == -1
\* this.port = parseInt(process.env.PORT, 10): a port number, or NaN
TargetPort == 1
NaNPort == 0
\* maxRetries of startWebSocketServer
maxRetries == 10
\* maxRetries of connectToExtension
MaxRetries == 5
\* setTimeout(..., 5000) of a connection attempt, in seconds
ConnectTimeout == 5
\* setTimeout(resolve, 2000) between two attempts, in seconds
RetryDelay == 2
\* setTimeout(..., 30000) of a request, in seconds
RequestTimeout == 30

Requests == 1 .. MaxRequests
\* connectToExtension calls: 0 is run()'s, r is the one made by request r.
\* A call constructs at most one socket (a retry follows only a constructor
\* that threw), so socket c is the socket constructed by call c.
Calls == 0 .. MaxRequests
Ids == 1 .. MaxIds
Threads == {1, 2}
Reasons == {"breakpoint", "exception"}
Peers == 1 .. MaxPeers

VARIABLES
  port,              \* this.port
  runPc,             \* run(): "init" | "connecting" | "done"
  ws,                \* this.ws: a socket (its call) or Null
  debuggerState,     \* this.debuggerState
  responseHandlers,  \* this.responseHandlers: id -> request whose closure is stored, 0 = absent
  req,               \* per sendRequest call: its promise, id and timer
  conn,              \* per connectToExtension call: its promise, retryCount and timers
  sock,              \* per socket: readyState
  age,               \* history: per request, the seconds since its timer was armed
  answered,          \* history: per request r, by: the request whose response ran r's
                     \* handler (0: none), late: that request had already timed out,
                     \* dropped: a response to r found no handler
  evLog,             \* history: the events replayed into the Session State Cache
  clients,           \* listening role: the live set of peers
  peer,              \* listening role: per peer socket, its readyState
  session,           \* vscode.debug.activeDebugSession: "none", or the session's type
  rx,                \* listening role: per received frame, the run of its message handler
  outbox,            \* per peer, the frames ws.send has put on its open socket
  emitted,           \* history: the events broadcast, each with the peers that were
                     \* live and open when it was
  codec,             \* a message on its way through JSON.stringify, JSON.parse and
                     \* messageSchema.safeParse
  server             \* startWebSocketServer: where it is, retries, the port tried,
                     \* the ports other processes hold, and the count of binds tried

cvars == <<port, runPc, ws, debuggerState, responseHandlers, req, conn, sock>>
hvars == <<answered, evLog>>
xvars == <<clients, peer, session, rx, outbox, emitted, codec, server>>
vars == <<cvars, age, hvars, xvars>>

\* ------------------------------------------------------------ messages

\* No response body (the promise has not been resolved)
NoValue == [type |-> "none"]

Has(m, f) == f \in DOMAIN m
HasLit(m, f, v) == f \in DOMAIN m /\ m[f] = v

executeLldbCommandRequestSchema(m) ==
  /\ HasLit(m, "type", "request") /\ HasLit(m, "command", "executeLldbCommand")
  /\ Has(m, "lldb_command") /\ Has(m, "id")
getStackTraceRequestSchema(m) ==
  /\ HasLit(m, "type", "request") /\ HasLit(m, "command", "getStackTrace")
  /\ Has(m, "threadId") /\ Has(m, "id")
getVariablesRequestSchema(m) ==
  /\ HasLit(m, "type", "request") /\ HasLit(m, "command", "getVariables")
  /\ Has(m, "variablesReference") /\ Has(m, "id")
responseSchema(m) ==
  /\ HasLit(m, "type", "response")
  /\ Has(m, "command") /\ m.command \in {"executeLldbCommand", "getStackTrace", "getVariables"}
  /\ Has(m, "success") /\ Has(m, "id")
debuggerStoppedEventSchema(m) ==
  /\ HasLit(m, "type", "event") /\ HasLit(m, "event", "debuggerStopped")
  /\ Has(m, "reason") /\ Has(m, "threadId")
debuggerContinuedEventSchema(m) ==
  /\ HasLit(m, "type", "event") /\ HasLit(m, "event", "debuggerContinued")
  /\ Has(m, "threadId")
requestSchema(m) ==
  \/ executeLldbCommandRequestSchema(m)
  \/ getStackTraceRequestSchema(m)
  \/ getVariablesRequestSchema(m)
eventSchema(m) == debuggerStoppedEventSchema(m) \/ debuggerContinuedEventSchema(m)
\* messageSchema.safeParse(m).success
messageSchema(m) == requestSchema(m) \/ responseSchema(m) \/ eventSchema(m)

\* Frames the peer of the connecting role may deliver: the responses to the
\* request that carried id i,
ResponseFrames(i) ==
  { [type |-> "response", command |-> "executeLldbCommand", success |-> TRUE,
     result |-> "out", id |-> i] }
  \cup { [type |-> "response", command |-> "executeLldbCommand", success |-> FALSE,
          error |-> e, id |-> i] : e \in {"", "bad expression"} }
\* the events,
EventFrames ==
  { [type |-> "event", event |-> "debuggerStopped", reason |-> rs, threadId |-> t]
      : rs \in Reasons, t \in Threads }
  \cup { [type |-> "event", event |-> "debuggerContinued", threadId |-> t] : t \in Threads }
\* and frames the schema rejects: the listening role's error reply, a response
\* without its id
MalformedFrames ==
  { [type |-> "error", error |-> "Invalid message format"],
    [type |-> "response", command |-> "executeLldbCommand", success |-> TRUE] }

\* ------------------------------------------------- the connecting role

\* The fields an operation reads and writes, as one value
State ==
  [port |-> port, runPc |-> runPc, ws |-> ws, ds |-> debuggerState, rh |-> responseHandlers,
   req |-> req, conn |-> conn, sock |-> sock]

Commit(S) ==
  /\ port' = S.port
  /\ runPc' = S.runPc
  /\ ws' = S.ws
  /\ debuggerState' = S.ds
  /\ responseHandlers' = S.rh
  /\ req' = S.req
  /\ conn' = S.conn
  /\ sock' = S.sock
  \* the age of a request is kept while its timer is armed, and once its
  \* timeout callback has rejected it
  /\ age' = [r \in Requests |->
              IF S.req[r].timer = Null /\ S.req[r].outcome # "Request timeout"
              THEN 0 ELSE age[r]]
  /\ UNCHANGED xvars

Disconnected(S) ==
  [S EXCEPT !.ds.connectionStatus = "disconnected", !.ds.connectionPort = Null]

\* resolve(response) of the promise sendRequest returns, called by the response
\* handler: a settled promise ignores it
Resolve(S, r, response) ==
  LET q == S.req[r] IN
  IF q.pc = "pending"
  THEN [S EXCEPT !.req[r] = [q EXCEPT !.pc = "resolved", !.value = response,
                                      !.calls = q.calls + 1]]
  ELSE [S EXCEPT !.req[r].calls = q.calls + 1]

\* reject(new Error(text)), called by the response handler or the timeout callback
Reject(S, r, text) ==
  LET q == S.req[r] IN
  IF q.pc = "pending"
  THEN [S EXCEPT !.req[r] = [q EXCEPT !.pc = "rejected", !.outcome = text,
                                      !.calls = q.calls + 1]]
  ELSE [S EXCEPT !.req[r].calls = q.calls + 1]

\* An exception leaving sendRequest (or the executor of its promise)
Throw(S, r, text) ==
  LET q == S.req[r] IN
  IF q.pc \in {"idle", "connecting", "pending"}
  THEN [S EXCEPT !.req[r] = [q EXCEPT !.pc = "rejected", !.outcome = text]]
  ELSE S

\* sendRequest from the id on: register the timer and the handler, transmit
RegisterAndSend(S, r, id) ==
  LET S1 == [S EXCEPT !.req[r] = [@ EXCEPT !.pc = "pending", !.id = id,
                                           !.timer = RequestTimeout],
                      !.rh[id] = r]
  IN  IF S1.ws = Null
      THEN Throw(S1, r, "TypeError")
      ELSE CASE S1.sock[S1.ws] = "open" -> [S1 EXCEPT !.req[r].sent = S1.ws]
             [] S1.sock[S1.ws] = "connecting" -> Throw(S1, r, "InvalidStateError")
             [] OTHER -> S1

\* The promise of connectToExtension call c is resolved: its caller goes on
ResolveConnect(S, c, id) ==
  IF S.conn[c].pc # "active" THEN S
  ELSE LET S1 == [S EXCEPT !.conn[c].pc = "resolved"] IN
       IF c = 0 THEN [S1 EXCEPT !.runPc = "done"]
       ELSE RegisterAndSend(S1, c, id)

\* The promise of connectToExtension call c is rejected: its caller's catch runs
RejectConnect(S, c) ==
  IF S.conn[c].pc # "active" THEN S
  ELSE LET S1 == [S EXCEPT !.conn[c].pc = "rejected"] IN
       IF c = 0 THEN [S1 EXCEPT !.runPc = "done"]
       ELSE Throw(S1, c, "Not connected to VS Code extension and reconnection failed")

\* new WebSocket(`ws://127.0.0.1:${port}`) throws a SyntaxError when the URL is
\* not valid, and otherwise returns a socket that connects in the background
WebSocketThrows(S) == S.port = NaNPort

\* connect(): one attempt
connect(S, c) ==
  IF S.conn[c].retryCount >= MaxRetries
  THEN RejectConnect(Disconnected(S), c)
  ELSE IF WebSocketThrows(S)
       THEN LET n == S.conn[c].retryCount + 1
                S1 == [S EXCEPT !.conn[c].retryCount = n]
            IN  IF n < MaxRetries
                THEN [S1 EXCEPT !.conn[c].delay = RetryDelay]
                ELSE RejectConnect(S1, c)
       ELSE [S EXCEPT !.ws = c, !.sock[c] = "connecting",
                      !.conn[c].timer = ConnectTimeout]

connectToExtension(S, c) ==
  connect([S EXCEPT !.ds.connectionStatus = "connecting",
                    !.ds.connectionPort = S.port,
                    !.conn[c].retryCount = 0,
                    !.conn[c].pc = "active"], c)

\* The timeout callback, had it closed the socket without rejecting
connectTimeout_noReject(S, c) ==
  LET S1 == IF S.ws # Null /\ S.sock[S.ws] \in {"connecting", "open"}
            THEN [S EXCEPT !.sock[S.ws] = "closing"] ELSE S
  IN  Disconnected([S1 EXCEPT !.conn[c].timer = Null])

\* The timeout callback of the attempt of call c
connectTimeout(S, c) ==
  LET S1 == IF S.ws # Null /\ S.sock[S.ws] \in {"connecting", "open"}
            THEN [S EXCEPT !.sock[S.ws] = "closing"] ELSE S
  IN  RejectConnect(Disconnected([S1 EXCEPT !.conn[c].timer = Null]), c)

onopen(S, c, id) ==
  ResolveConnect([S EXCEPT !.conn[c].timer = Null,
                           !.ds.connectionStatus = "connected",
                           !.conn[c].retryCount = 0], c, id)

\* ws.onclose, had it reconnected on its own
onclose_reconnects(S, c) ==
  connectToExtension([Disconnected(S) EXCEPT !.ws = Null], c)

\* ws.onclose
onclose(S, c) == [Disconnected(S) EXCEPT !.ws = Null]

onerror(S, c) ==
  RejectConnect([Disconnected(S) EXCEPT !.conn[c].timer = Null, !.ws = Null], c)

\* handleEvent, had debuggerContinued taken the thread of its event
handleEvent_continuedSetsThread(S, event) ==
  IF event.event = "debuggerStopped"
  THEN [S EXCEPT !.ds.isStopped = TRUE,
                 !.ds.currentThreadId = event.threadId,
                 !.ds.stopReason = event.reason]
  ELSE IF event.event = "debuggerContinued"
       THEN [S EXCEPT !.ds.isStopped = FALSE, !.ds.currentThreadId = event.threadId]
       ELSE S

handleEvent(S, event) ==
  IF event.event = "debuggerStopped"
  THEN [S EXCEPT !.ds.isStopped = TRUE,
                 !.ds.currentThreadId = event.threadId,
                 !.ds.stopReason = event.reason]
  ELSE IF event.event = "debuggerContinued"
       THEN [S EXCEPT !.ds.isStopped = FALSE]
       ELSE S

\* The closure, had it taken a successful response for the session running on
handler_touchesCache(S, r, response) ==
  LET S1 == [S EXCEPT !.req[r].timer = Null] IN
  IF response.success
  THEN Resolve([S1 EXCEPT !.ds.isStopped = FALSE], r, response)
  ELSE Reject(S1, r, IF Has(response, "error") /\ response.error # ""
                     THEN response.error ELSE "Request failed")

\* The closure, had it left the timeout armed
handler_keepsTimeout(S, r, response) ==
  IF response.success
  THEN Resolve(S, r, response)
  ELSE Reject(S, r, IF Has(response, "error") /\ response.error # ""
                    THEN response.error ELSE "Request failed")

\* The closure sendRequest stores in responseHandlers for request r
handler(S, r, response) ==
  LET S1 == [S EXCEPT !.req[r].timer = Null] IN
  IF response.success
  THEN Resolve(S1, r, response)
  ELSE Reject(S1, r, IF Has(response, "error") /\ response.error # ""
                     THEN response.error ELSE "Request failed")

\* ws.onmessage, had it handed a response to the oldest registered handler
onmessage_bySendOrder(S, message) ==
  IF messageSchema(message)
  THEN IF message.type = "response"
       THEN LET live == {S.rh[i] : i \in Ids} \ {0} IN
            IF live # {}
            THEN LET h == CHOOSE x \in live : \A y \in live : x <= y
                 IN  [handler(S, h, message) EXCEPT !.rh[S.req[h].id] = 0]
            ELSE S
       ELSE IF message.type = "event" THEN handleEvent(S, message) ELSE S
  ELSE S

\* The timeout callback of request r
requestTimeout(S, r) ==
  Reject([S EXCEPT !.rh[S.req[r].id] = 0, !.req[r].timer = Null], r, "Request timeout")

onmessage(S, message) ==
  IF messageSchema(message)
  THEN IF message.type = "response"
       THEN LET h == S.rh[message.id] IN
            IF h # 0
            THEN [handler(S, h, message) EXCEPT !.rh[message.id] = 0]
            ELSE S
       ELSE IF message.type = "event" THEN handleEvent(S, message) ELSE S
  ELSE S

sendRequest(S, r, id) ==
  IF S.ws = Null \/ S.sock[S.ws] # "open"
  THEN IF S.ds.connectionStatus # "connecting"
       THEN connectToExtension([S EXCEPT !.req[r].pc = "connecting"], r)
       ELSE Throw(S, r, "Connection to VS Code extension is still being established")
  ELSE RegisterAndSend(S, r, id)

\* ---------------------------------------------------------------- time

\* The remaining times of the armed timers
LiveTimers ==
  { req[r].timer : r \in { x \in Requests : req[x].timer # Null } }
  \cup { conn[c].timer : c \in { x \in Calls : conn[x].timer # Null } }
  \cup { conn[c].delay : c \in { x \in Calls : conn[x].delay # Null } }

Min(T) == CHOOSE x \in T : \A y \in T : x <= y

\* Time passes up to the next deadline, or by one of the program's delays
TickSteps == { d \in {Min(LiveTimers), ConnectTimeout} : d > 0 /\ d <= Min(LiveTimers) }

Elapse(t, d) == IF t = Null THEN Null ELSE t - d

\* ------------------------------------------------------------- actions

InitClient ==
  /\ port \in {TargetPort, NaNPort}
  /\ runPc = "init"
  /\ ws = Null
  /\ debuggerState = [isStopped |-> FALSE, currentThreadId |-> 1, stopReason |-> "",
                      connectionStatus |-> "disconnected", connectionPort |-> Null]
  /\ responseHandlers = [i \in Ids |-> 0]
  /\ req = [r \in Requests |->
             [pc |-> "idle", id |-> 0, timer |-> Null, calls |-> 0,
              outcome |-> "", value |-> NoValue, sent |-> Null]]
  /\ conn = [c \in Calls |-> [pc |-> "idle", retryCount |-> 0, timer |-> Null, delay |-> Null]]
  /\ sock = [c \in Calls |-> "none"]
  /\ age = [r \in Requests |-> 0]
  /\ answered = [r \in Requests |-> [by |-> 0, late |-> FALSE, dropped |-> FALSE]]
  /\ evLog = << >>

\* run(): await this.connectToExtension(this.port)
Run ==
  /\ runPc = "init"
  /\ Commit(connectToExtension([State EXCEPT !.runPc = "connecting"], 0))
  /\ UNCHANGED hvars

\* A tool call reaches sendRequest
SendRequest(r) ==
  /\ runPc # "init"
  /\ req[r].pc = "idle"
  /\ \A x \in Requests : x < r => req[x].pc # "idle"
  /\ \E id \in Ids : Commit(sendRequest(State, r, id))
  /\ UNCHANGED hvars

\* The retry delay of call c is over: connect() again
RetryFire(c) ==
  /\ conn[c].delay = 0
  /\ Commit(connect([State EXCEPT !.conn[c].delay = Null], c))
  /\ UNCHANGED hvars

ConnTimeoutFire(c) ==
  /\ conn[c].timer = 0
  /\ Commit(connectTimeout(State, c))
  /\ UNCHANGED hvars

RequestTimeoutFire(r) ==
  /\ req[r].timer = 0
  /\ Commit(requestTimeout(State, r))
  /\ UNCHANGED hvars

\* Socket c opens
SockOpen(c) ==
  /\ sock[c] = "connecting"
  /\ \E id \in Ids : Commit(onopen([State EXCEPT !.sock[c] = "open"], c, id))
  /\ UNCHANGED hvars

\* Socket c closes: the close event alone
SockClose(c) ==
  /\ sock[c] \in {"open", "closing"}
  /\ Commit(onclose([State EXCEPT !.sock[c] = "closed"], c))
  /\ UNCHANGED hvars

\* Socket c fails: the error event, then the close event
SockFail(c) ==
  /\ sock[c] \in {"connecting", "open", "closing"}
  /\ Commit(onclose(onerror([State EXCEPT !.sock[c] = "closed"], c), c))
  /\ UNCHANGED hvars

\* A response to request o arrives on the socket that carried o (the peer may
\* repeat it, and may send it after o has timed out)
ReceiveResponseFrame(c, o, m) ==
  /\ sock[c] = "open"
  /\ req[o].sent = c
  /\ Commit(onmessage(State, m))
  /\ answered' =
       LET h == responseHandlers[m.id] IN
       IF h = 0 THEN [answered EXCEPT ![o].dropped = TRUE]
       ELSE [answered EXCEPT ![h].by = o,
                             ![h].late = (req[o].outcome = "Request timeout")]
  /\ UNCHANGED evLog

ReceiveResponse(c, o) ==
  \E m \in ResponseFrames(req[o].id) : ReceiveResponseFrame(c, o, m)

\* The event m arrives on socket c
ReceiveEventFrame(c, m) ==
  /\ sock[c] = "open"
  /\ Commit(onmessage(State, m))
  /\ UNCHANGED hvars

\* An event arrives on socket c
ReceiveEvent(c) == \E m \in EventFrames : ReceiveEventFrame(c, m)

\* A frame the schema rejects arrives on socket c
ReceiveMalformed(c) ==
  /\ sock[c] = "open"
  /\ \E m \in MalformedFrames : Commit(onmessage(State, m))
  /\ UNCHANGED hvars

Tick ==
  /\ LiveTimers # {}
  /\ \E d \in TickSteps :
       /\ req' = [r \in Requests |->
                   [req[r] EXCEPT !.timer = Elapse(@, d)]]
       /\ age' = [r \in Requests |-> IF req[r].timer # Null THEN age[r] + d ELSE age[r]]
       /\ conn' = [c \in Calls |->
                    [conn[c] EXCEPT !.timer = Elapse(@, d), !.delay = Elapse(@, d)]]
       /\ UNCHANGED <<port, runPc, ws, debuggerState, responseHandlers, sock, hvars, xvars>>

Next ==
  \/ Run
  \/ \E r \in Requests : SendRequest(r)
  \/ \E c \in Calls : RetryFire(c)
  \/ \E c \in Calls : ConnTimeoutFire(c)
  \/ \E r \in Requests : RequestTimeoutFire(r)
  \/ \E c \in Calls : SockOpen(c)
  \/ \E c \in Calls : SockClose(c)
  \/ \E c \in Calls : SockFail(c)
  \/ \E c \in Calls, o \in Requests : ReceiveResponse(c, o)
  \/ \E c \in Calls : ReceiveEvent(c)
  \/ \E c \in Calls : ReceiveMalformed(c)
  \/ Tick

\* --------------------------------------------------- the listening role

\* Frames a peer may send: the three requests,
RequestFrames ==
  { [type |-> "request", command |-> "executeLldbCommand", lldb_command |-> "bt", id |-> i]
      : i \in Ids }
  \cup { [type |-> "request", command |-> "getStackTrace", threadId |-> 1, id |-> i]
           : i \in Ids }
  \cup { [type |-> "request", command |-> "getVariables", variablesReference |-> v, id |-> i]
           : v \in {0, 7}, i \in Ids }
\* JSON that misses a required field,
MissingFieldFrames ==
  { [type |-> "request", command |-> "getStackTrace", threadId |-> 1],
    [type |-> "request", command |-> "getVariables", id |-> 1] }
\* text that is not JSON,
NotJson == [raw |-> "not json"]
\* and a valid message that is not a request
NonRequestFrames == { [type |-> "event", event |-> "debuggerContinued", threadId |-> 1] }

\* JSON.parse(data.toString()) throws
JsonParseThrows(data) == Has(data, "raw")

\* What session.customRequest may do: resolve with the result the handler reads,
\* resolve with a value that lacks it (reading it throws a TypeError), reject
\* with an Error, reject with another value
OpOutcomes == {"ok", "void", "error", "nonerror"}

ExtState ==
  [clients |-> clients, peer |-> peer, session |-> session, rx |-> rx, outbox |-> outbox,
   emitted |-> emitted]

ExtCommit(X) ==
  /\ clients' = X.clients
  /\ peer' = X.peer
  /\ session' = X.session
  /\ rx' = X.rx
  /\ outbox' = X.outbox
  /\ emitted' = X.emitted
  /\ UNCHANGED <<cvars, age, hvars, codec, server>>

\* The reply, had it been sent to every live open peer as events are
send_toAllClients(X, t, frame) ==
  LET X1 == [X EXCEPT !.rx[t].replies = Append(@, frame)]
  IN  [X1 EXCEPT !.outbox = [p \in Peers |->
                   IF p \in X1.clients /\ X1.peer[p] = "open"
                   THEN Append(X1.outbox[p], frame) ELSE X1.outbox[p]]]

\* ws.send(JSON.stringify(frame)) in the handler of received frame t: ws is the
\* socket the frame came from; a socket that is not open drops the frame
send(X, t, frame) ==
  LET p == X.rx[t].peer
      X1 == [X EXCEPT !.rx[t].replies = Append(@, frame)]
  IN  IF X1.peer[p] = "open"
      THEN [X1 EXCEPT !.outbox[p] = Append(@, frame)]
      ELSE X1

FailureResponse(request, error) ==
  [type |-> "response", command |-> request.command, success |-> FALSE,
   error |-> error, id |-> request.id]

\* The session test, had it left out the session type
NoLldbSession_anySession(X) == X.session = "none"

\* !session || session.type !== "lldb"
NoLldbSession(X) == X.session # "lldb"

\* await session.customRequest(op, ...): the handler is suspended
customRequest(X, t, op) == [X EXCEPT !.rx[t].op = op, !.rx[t].awaiting = TRUE]

handleExecuteLldbCommand(X, t, request) ==
  IF NoLldbSession(X)
  THEN send(X, t, FailureResponse(request, "No active LLDB debug session"))
  ELSE customRequest(X, t, "evaluate")

handleGetStackTrace(X, t, request) ==
  IF NoLldbSession(X)
  THEN send(X, t, FailureResponse(request, "No active LLDB debug session"))
  ELSE customRequest(X, t, "stackTrace")

\* handleGetVariables, had it passed reference 0 on to the session
handleGetVariables_noZeroCheck(X, t, request) ==
  IF NoLldbSession(X)
  THEN send(X, t, FailureResponse(request, "No active LLDB debug session"))
  ELSE customRequest(X, t, "variables")

handleGetVariables(X, t, request) ==
  IF NoLldbSession(X)
  THEN send(X, t, FailureResponse(request, "No active LLDB debug session"))
  ELSE IF request.variablesReference = 0
       THEN send(X, t, FailureResponse(request,
                  "Please provide a valid variablesReference from a stack frame"))
       ELSE customRequest(X, t, "variables")

handleRequest(X, t, request) ==
  CASE request.command = "executeLldbCommand" -> handleExecuteLldbCommand(X, t, request)
    [] request.command = "getStackTrace" -> handleGetStackTrace(X, t, request)
    [] request.command = "getVariables" -> handleGetVariables(X, t, request)
    [] OTHER -> X

\* The text of the catch block's response
CatchText(request, outcome) ==
  CASE outcome = "error" -> "bad expression"
    [] outcome = "void" -> "TypeError"
    [] request.command = "executeLldbCommand" -> "Command execution failed"
    [] request.command = "getStackTrace" -> "Failed to get stack trace"
    [] OTHER -> "Failed to get variables"

SuccessResponse(request) ==
  CASE request.command = "executeLldbCommand" ->
         [type |-> "response", command |-> request.command, success |-> TRUE,
          result |-> "out", id |-> request.id]
    [] request.command = "getStackTrace" ->
         [type |-> "response", command |-> request.command, success |-> TRUE,
          stackFrames |-> "frames", id |-> request.id]
    [] OTHER ->
         [type |-> "response", command |-> request.command, success |-> TRUE,
          variables |-> "variables", id |-> request.id]

\* The handler after its await, had it had no catch block
resume_noCatch(X, t, outcome) ==
  LET request == X.rx[t].frame
      X1 == [X EXCEPT !.rx[t].awaiting = FALSE]
  IN  IF outcome = "ok" THEN send(X1, t, SuccessResponse(request)) ELSE X1

\* The handler of frame t after its await: the try block's response, or the
\* catch block's
resume(X, t, outcome) ==
  LET request == X.rx[t].frame
      X1 == [X EXCEPT !.rx[t].awaiting = FALSE]
  IN  IF outcome = "ok"
      THEN send(X1, t, SuccessResponse(request))
      ELSE send(X1, t, FailureResponse(request, CatchText(request, outcome)))

\* ws.on("message"), had it dropped the peer that sent a malformed frame
onPeerMessage_dropsPeer(X, t) ==
  LET data == X.rx[t].frame IN
  IF JsonParseThrows(data)
  THEN send(X, t, [type |-> "error", error |-> "Failed to process message"])
  ELSE IF ~messageSchema(data)
       THEN LET X1 == send(X, t, [type |-> "error", error |-> "Invalid message format"])
            IN  [X1 EXCEPT !.peer[X.rx[t].peer] = "closed", !.clients = @ \ {X.rx[t].peer}]
       ELSE IF data.type = "request" THEN handleRequest(X, t, data) ELSE X

\* ws.on("message"), had it left a frame unhandled while the debug session
\* still owes the result of an earlier request
onPeerMessage_waitsForSession(X, t) ==
  LET data == X.rx[t].frame IN
  IF \E u \in DOMAIN X.rx : X.rx[u].awaiting
  THEN X
  ELSE IF JsonParseThrows(data)
       THEN send(X, t, [type |-> "error", error |-> "Failed to process message"])
       ELSE IF ~messageSchema(data)
            THEN send(X, t, [type |-> "error", error |-> "Invalid message format"])
            ELSE IF data.type = "request" THEN handleRequest(X, t, data) ELSE X

\* ws.on("message") for received frame t, up to its first await
onPeerMessage(X, t) ==
  LET data == X.rx[t].frame IN
  IF JsonParseThrows(data)
  THEN send(X, t, [type |-> "error", error |-> "Failed to process message"])
  ELSE IF ~messageSchema(data)
       THEN send(X, t, [type |-> "error", error |-> "Invalid message format"])
       ELSE IF data.type = "request" THEN handleRequest(X, t, data) ELSE X

\* No peer has connected yet
InitPeers ==
  /\ clients = {}
  /\ peer = [p \in Peers |-> "none"]
  /\ session = "none"
  /\ rx = << >>
  /\ outbox = [p \in Peers |-> << >>]
  /\ emitted = << >>

\* startWebSocketServer after its first bind succeeded on the port p
Listening(p) ==
  [pc |-> "listening", retries |-> 0, port |-> p, currentPort |-> p,
   inUse |-> {}, attempts |-> 1, reported |-> FALSE]

\* The server listens on the port the connecting role is given
InitExt == InitPeers /\ server = Listening(TargetPort)

\* wss.on("connection")
PeerConnect(p) ==
  /\ peer[p] = "none"
  /\ ExtCommit([ExtState EXCEPT !.peer[p] = "open", !.clients = @ \cup {p}])

\* ws.on("close"), had it emptied the set
onPeerClose_clearsAll(X, p) == [X EXCEPT !.clients = {}]

\* ws.on("close")
onPeerClose(X, p) == [X EXCEPT !.clients = @ \ {p}]

\* ws.on("error")
onPeerError(X, p) == [X EXCEPT !.clients = @ \ {p}]

\* The socket of peer p closes: the close event
PeerClose(p) ==
  /\ peer[p] = "open"
  /\ ExtCommit(onPeerClose([ExtState EXCEPT !.peer[p] = "closed"], p))

\* The socket of peer p fails: the error event, then the close event
PeerError(p) ==
  /\ peer[p] = "open"
  /\ ExtCommit(onPeerClose(onPeerError([ExtState EXCEPT !.peer[p] = "closed"], p), p))

\* A debug session starts or ends, or another one becomes the active one
SessionChange ==
  /\ \E s \in {"none", "lldb", "python"} :
       /\ s # session
       /\ ExtCommit([ExtState EXCEPT !.session = s])

\* Peer p sends the frame data
PeerFrame(p, data) ==
  /\ peer[p] = "open"
  /\ Len(rx) < MaxFrames
  /\ LET t == Len(rx) + 1
         X == [ExtState EXCEPT !.rx = Append(@,
                 [peer |-> p, frame |-> data, op |-> "none",
                  awaiting |-> FALSE, replies |-> << >>])]
     IN  ExtCommit(onPeerMessage(X, t))

\* Peer p sends a frame
PeerMessage(p) ==
  \E data \in RequestFrames \cup MissingFieldFrames \cup {NotJson} \cup NonRequestFrames :
    PeerFrame(p, data)

\* session.customRequest of the handler of frame t settles
OpComplete(t) ==
  /\ t \in DOMAIN rx
  /\ rx[t].awaiting
  /\ \E outcome \in OpOutcomes : ExtCommit(resume(ExtState, t, outcome))

ExtNext ==
  \/ \E p \in Peers : PeerConnect(p)
  \/ \E p \in Peers : PeerClose(p)
  \/ \E p \in Peers : PeerError(p)
  \/ SessionChange
  \/ \E p \in Peers : PeerMessage(p)
  \/ \E t \in 1 .. MaxFrames : OpComplete(t)

Init == InitClient /\ InitExt /\ codec = [pc |-> "none"]

ExtInit == Init /\ port = TargetPort

\* The listening role
ExtSpec == ExtInit /\ [][ExtNext]_vars

Spec == Init /\ [][Next]_vars

\* The event loop runs a timer callback that is due, and time passes
FairSpec ==
  /\ Spec
  /\ WF_vars(Tick)
  /\ \A r \in Requests : WF_vars(RequestTimeoutFire(r))
  /\ \A c \in Calls : WF_vars(ConnTimeoutFire(c)) /\ WF_vars(RetryFire(c))

\* An event arrives on socket c and is replayed into the cache
ReplayEvent(c) ==
  /\ sock[c] = "open"
  /\ Len(evLog) < MaxEvents
  /\ \E m \in EventFrames :
       /\ Commit(onmessage(State, m))
       /\ evLog' = Append(evLog, m)
  /\ UNCHANGED answered

CacheNext ==
  \/ Run
  \/ \E c \in Calls : SockOpen(c)
  \/ \E c \in Calls : ReplayEvent(c)

\* The Session State Cache alone: the events received on the first connection
CacheSpec == Init /\ [][CacheNext]_vars

\* -------------------------------------------------------------- claims

Settled == {"resolved", "rejected"}

\* C1: every request that has registered its pending entry is settled exactly
\* once: its response handler and its timeout callback run at most once between
\* them (a duplicate or late response never settles it again), a settled request
\* keeps its outcome, and a pending request is eventually resolved or rejected.
C1_SettledExactlyOnce ==
  /\ [](\A r \in Requests : req[r].calls <= 1)
  /\ [][\A r \in Requests : req[r].pc \in Settled =>
          /\ req'[r].pc = req[r].pc
          /\ req'[r].outcome = req[r].outcome
          /\ req'[r].value = req[r].value]_vars
  /\ \A r \in Requests : (req[r].pc = "pending") ~> (req[r].pc \in Settled)

\* A request resolved by its response, whose duplicate then found no handler
C1_Witness ==
  \E r \in Requests :
    /\ req[r].pc = "resolved" /\ req[r].calls = 1
    /\ answered[r].by = r /\ answered[r].dropped

\* C3: two outstanding requests never share an id (sendRequest never registers
\* an id that is live in the pending-request table).
C3_FreshId ==
  \A r1, r2 \in Requests :
    (r1 # r2 /\ req[r1].pc = "pending" /\ req[r2].pc = "pending")
      => req[r1].id # req[r2].id

\* C4: a response that arrives after its request's timeout has fired runs no
\* request's handler: it settles nothing, in particular not a later request.
C4_LateResponseDiscarded == \A r \in Requests : ~answered[r].late

\* C5: a request that has registered its entry and that no response answers is
\* rejected with the timeout error, RequestTimeout seconds after the entry was
\* registered: it is rejected with no other error, the rejection comes at that
\* age, and until then its timer is armed with the rest of the window.
C5_TimeoutAfterWindow ==
  \A r \in Requests :
    /\ req[r].timer # Null => req[r].timer >= 0 /\ age[r] + req[r].timer = RequestTimeout
    /\ req[r].pc = "pending" => req[r].timer # Null
    /\ req[r].outcome = "Request timeout" => age[r] = RequestTimeout
    /\ (req[r].id # 0 /\ req[r].pc = "rejected" /\ answered[r].by = 0)
         => req[r].outcome = "Request timeout"

\* C6: a connectToExtension call whose attempt failed retries while its budget
\* lasts: it is rejected only once retryCount has reached maxRetries.
C6_RetriesWithinBudget ==
  \A c \in Calls : conn[c].pc = "rejected" => conn[c].retryCount >= MaxRetries

\* The index of the last debuggerStopped event of a log, 0 if there is none
RECURSIVE LastStopped(_, _)
LastStopped(log, n) ==
  IF n = 0 THEN 0
  ELSE IF log[n].event = "debuggerStopped" THEN n ELSE LastStopped(log, n - 1)

\* C9: the Session State Cache is a fold over the received events: isStopped
\* says whether the last event was debuggerStopped, and currentThreadId and
\* stopReason are those of the most recent debuggerStopped (initially 1 and "").
C9_CacheIsFold ==
  LET n == Len(evLog)
      k == LastStopped(evLog, n)
  IN  /\ debuggerState.isStopped = (n > 0 /\ evLog[n].event = "debuggerStopped")
      /\ debuggerState.currentThreadId = IF k = 0 THEN 1 ELSE evLog[k].threadId
      /\ debuggerState.stopReason = IF k = 0 THEN "" ELSE evLog[k].reason

\* The sequence of the specification's example, replayed
C9_Witness ==
  /\ evLog = << [type |-> "event", event |-> "debuggerStopped",
                 reason |-> "breakpoint", threadId |-> 1],
                [type |-> "event", event |-> "debuggerContinued", threadId |-> 1],
                [type |-> "event", event |-> "debuggerStopped",
                 reason |-> "exception", threadId |-> 2] >>
  /\ debuggerState.isStopped
  /\ debuggerState.currentThreadId = 2
  /\ debuggerState.stopReason = "exception"


\* A frame that parses as JSON and fails the schema
Malformed(data) == ~JsonParseThrows(data) /\ ~messageSchema(data)

ValidRequest(data) == ~JsonParseThrows(data) /\ requestSchema(data)

\* C2: the handler of a valid request has sent nothing while it awaits the debug
\* session, and once it has ended it has sent exactly one frame, a response that
\* carries the request's command and id.
C2_OneResponsePerRequest ==
  \A t \in DOMAIN rx :
    ValidRequest(rx[t].frame) =>
      IF rx[t].awaiting
      THEN rx[t].replies = << >>
      ELSE /\ Len(rx[t].replies) = 1
           /\ rx[t].replies[1].type = "response"
           /\ rx[t].replies[1].id = rx[t].frame.id
           /\ rx[t].replies[1].command = rx[t].frame.command

\* A request answered after its debug-session operation failed, and another
\* answered without one
C2_Witness ==
  \E t, u \in DOMAIN rx :
    /\ ValidRequest(rx[t].frame) /\ rx[t].op # "none" /\ ~rx[t].awaiting
    /\ Len(rx[t].replies) = 1 /\ ~rx[t].replies[1].success
    /\ ValidRequest(rx[u].frame) /\ rx[u].op = "none" /\ Len(rx[u].replies) = 1

\* C7: a valid request received while no lldb session is active is answered at
\* once with success:false and the fixed error, and no debug-session operation is
\* invoked for it.
C7_NoActiveSession ==
  [][(Len(rx') = Len(rx) + 1 /\ ValidRequest(rx'[Len(rx')].frame) /\ session # "lldb")
       => LET t == rx'[Len(rx')] IN
          /\ t.op = "none" /\ ~t.awaiting
          /\ t.replies = << FailureResponse(t.frame, "No active LLDB debug session") >>]_vars

\* Each command variant answered while a session of another type is active
C7_Witness ==
  /\ session = "python"
  /\ Len(rx) = MaxFrames
  /\ \A t \in DOMAIN rx :
       /\ ValidRequest(rx[t].frame) /\ rx[t].op = "none"
       /\ rx[t].replies = << FailureResponse(rx[t].frame, "No active LLDB debug session") >>
  /\ \E t, u \in DOMAIN rx : rx[t].frame.command # rx[u].frame.command

\* C8: a getVariables request whose variablesReference is 0 gets one response,
\* with success:false, and the variables operation is never invoked for it.
C8_ReferenceZero ==
  \A t \in DOMAIN rx :
    (getVariablesRequestSchema(rx[t].frame) /\ rx[t].frame.variablesReference = 0) =>
      /\ rx[t].op = "none" /\ ~rx[t].awaiting
      /\ Len(rx[t].replies) = 1
      /\ rx[t].replies[1].type = "response"
      /\ ~rx[t].replies[1].success

\* Reference 0 refused while an lldb session is active
C8_Witness ==
  \E t \in DOMAIN rx :
    /\ getVariablesRequestSchema(rx[t].frame) /\ rx[t].frame.variablesReference = 0
    /\ rx[t].replies = << FailureResponse(rx[t].frame,
          "Please provide a valid variablesReference from a stack frame") >>

\* C10: a frame that misses a required field is answered with the structural
\* error, on the socket it came from; no debug-session operation is invoked for
\* it, and receiving it removes no peer, closes no socket, and changes neither
\* the handlers of the frames received before nor what any other peer is sent.
C10_MalformedFrame ==
  /\ [](\A t \in DOMAIN rx :
          Malformed(rx[t].frame) =>
            /\ rx[t].op = "none" /\ ~rx[t].awaiting
            /\ rx[t].replies = << [type |-> "error", error |-> "Invalid message format"] >>)
  /\ [][(Len(rx') = Len(rx) + 1 /\ Malformed(rx'[Len(rx')].frame)) =>
          LET p == rx'[Len(rx')].peer IN
          /\ clients' = clients /\ peer' = peer
          /\ SubSeq(rx', 1, Len(rx)) = rx
          /\ outbox'[p] = Append(outbox[p],
                                 [type |-> "error", error |-> "Invalid message format"])
          /\ \A q \in Peers \ {p} : outbox'[q] = outbox[q]]_vars

\* A malformed frame answered while another peer's request awaits the debug
\* session, the sender still live and open
C10_Witness ==
  \E t, u \in DOMAIN rx :
    /\ Malformed(rx[t].frame) /\ Len(rx[t].replies) = 1
    /\ rx[u].peer # rx[t].peer /\ rx[u].awaiting
    /\ rx[t].peer \in clients /\ peer[rx[t].peer] = "open"
    /\ Len(outbox[rx[t].peer]) = 1

\* A connectToExtension call whose promise is not settled: an attempt under way
AttemptUnderWay == \E c \in Calls : conn[c].pc = "active"

\* C11: a sendRequest call made while the transport is not connected starts a
\* connection attempt of its own when none is under way, and is rejected at once
\* when one is: then it registers no entry, transmits nothing and starts no
\* attempt. A request is transmitted only after its own attempt, if it made one,
\* has succeeded, and a request whose attempt failed is rejected with the
\* connectivity error.
C11_SendWhileNotConnected ==
  /\ [][\A r \in Requests :
          (req[r].pc = "idle" /\ req'[r].pc # "idle" /\ (ws = Null \/ sock[ws] # "open")) =>
            IF AttemptUnderWay
            THEN /\ req'[r].pc = "rejected"
                 /\ req'[r].outcome = "Connection to VS Code extension is still being established"
                 /\ req'[r].id = 0 /\ req'[r].sent = Null
                 /\ responseHandlers' = responseHandlers
                 /\ conn' = conn /\ sock' = sock
            ELSE conn'[r].pc # "idle" /\ req'[r].sent = Null]_vars
  /\ [](\A r \in Requests :
          /\ req[r].sent # Null => conn[r].pc \in {"idle", "resolved"}
          /\ conn[r].pc = "rejected" =>
               req[r].outcome = "Not connected to VS Code extension and reconnection failed")

\* C12: responses are correlated by id, not by send order: a request that a
\* response has settled was settled by a response carrying the request's id,
\* whatever the order in which the responses arrive.
C12_CorrelatedById ==
  \A r \in Requests :
    /\ req[r].pc = "resolved" => req[r].value.id = req[r].id
    /\ answered[r].by # 0 => req[answered[r].by].id = req[r].id

\* Two requests in flight with different ids; the response to the second has
\* arrived first and resolved it, the first is still pending
C12_Witness ==
  /\ req[1].pc = "pending" /\ req[1].sent # Null
  /\ req[2].pc = "resolved" /\ req[2].id # req[1].id
  /\ req[2].value.id = req[2].id /\ answered[2].by = 2 /\ answered[1].by = 0

\* ------------------------------------------------------ event broadcaster

\* What the debug adapter of an lldb session sends: stopped events with and
\* without a reason, continued events, and an event the tracker ignores
AdapterMessages ==
  { [type |-> "event", event |-> "stopped", body |-> [reason |-> x, threadId |-> t]]
      : x \in Reasons, t \in Threads }
  \cup { [type |-> "event", event |-> "stopped", body |-> [threadId |-> t]] : t \in Threads }
  \cup { [type |-> "event", event |-> "continued", body |-> [threadId |-> t]] : t \in Threads }
  \cup { [type |-> "event", event |-> "output", body |-> [threadId |-> 1]] }

\* broadcastEvent, had it sent to every member of clients whatever its state
broadcastEvent_noReadyCheck(X, event) ==
  [X EXCEPT !.outbox = [p \in Peers |->
                          IF p \in X.clients THEN Append(X.outbox[p], event)
                          ELSE X.outbox[p]]]

\* broadcastEvent, had it put the event ahead of the frames not yet written
broadcastEvent_jumpsQueue(X, event) ==
  [X EXCEPT !.outbox = [p \in Peers |->
                          IF p \in X.clients /\ X.peer[p] = "open"
                          THEN << event >> \o X.outbox[p]
                          ELSE X.outbox[p]]]

\* clients.forEach: client.send(message) where client.readyState === 1
broadcastEvent(X, event) ==
  [X EXCEPT !.outbox = [p \in Peers |->
                          IF p \in X.clients /\ X.peer[p] = "open"
                          THEN Append(X.outbox[p], event)
                          ELSE X.outbox[p]]]

\* The tracker's onDidSendMessage
onDidSendMessage(X, message) ==
  IF message.type = "event"
  THEN IF message.event = "stopped"
       THEN broadcastEvent(X, [type |-> "event", event |-> "debuggerStopped",
                               reason |-> IF Has(message.body, "reason")
                                          THEN message.body.reason ELSE "unknown",
                               threadId |-> message.body.threadId])
       ELSE IF message.event = "continued"
            THEN broadcastEvent(X, [type |-> "event", event |-> "debuggerContinued",
                                    threadId |-> message.body.threadId])
            ELSE X
  ELSE X

\* The event onDidSendMessage makes of an adapter message
BroadcastOf(message) ==
  IF message.event = "stopped"
  THEN [type |-> "event", event |-> "debuggerStopped",
        reason |-> IF Has(message.body, "reason") THEN message.body.reason ELSE "unknown",
        threadId |-> message.body.threadId]
  ELSE [type |-> "event", event |-> "debuggerContinued", threadId |-> message.body.threadId]

\* The debug adapter sends message and the tracker sees it
AdapterMessage(message) ==
  /\ Len(emitted) < MaxEvents
  /\ LET X == onDidSendMessage(ExtState, message)
         live == { p \in clients : peer[p] = "open" }
     IN  ExtCommit([X EXCEPT !.emitted =
                      IF message.event \in {"stopped", "continued"}
                      THEN Append(@, [event |-> BroadcastOf(message), to |-> live])
                      ELSE @])

\* The debug adapter sends a message
DebugEvent == \E message \in AdapterMessages : AdapterMessage(message)

\* The socket of peer p starts its closing handshake: readyState is CLOSING and
\* the close event has not been emitted yet
PeerClosing(p) ==
  /\ peer[p] = "open"
  /\ ExtCommit([ExtState EXCEPT !.peer[p] = "closing"])

\* The close event of a socket that was closing
PeerClosed(p) ==
  /\ peer[p] = "closing"
  /\ ExtCommit(onPeerClose([ExtState EXCEPT !.peer[p] = "closed"], p))

BroadcastNext ==
  \/ \E p \in Peers : PeerConnect(p)
  \/ \E p \in Peers : PeerClosing(p)
  \/ \E p \in Peers : PeerClosed(p)
  \/ \E p \in Peers : PeerError(p)
  \/ DebugEvent

\* The Event Broadcaster and the peers' connections
BroadcastSpec == ExtInit /\ [][BroadcastNext]_vars

\* The events of emitted[1..n] that went to peer p, in order
RECURSIVE SentTo(_, _)
SentTo(p, n) ==
  IF n = 0 THEN << >>
  ELSE IF p \in emitted[n].to
       THEN Append(SentTo(p, n - 1), emitted[n].event)
       ELSE SentTo(p, n - 1)

\* C13: every stop or continue notification is sent once to each peer that is
\* in the live set and open when it is broadcast, and to no other peer, then or
\* later: what a peer has been sent is exactly the events broadcast while it was
\* live and open.
C13_BroadcastToOpenPeers ==
  \A p \in Peers : outbox[p] = SentTo(p, Len(emitted))

\* An event broadcast while one peer was open and another, still in the live
\* set, was closing: the first got it, the second did not
C13_Witness ==
  \E p, q \in Peers, k \in DOMAIN emitted :
    /\ p \in emitted[k].to /\ q \notin emitted[k].to
    /\ q \in clients /\ peer[q] = "closing"
    /\ Len(outbox[p]) = 1 /\ outbox[q] = << >>

\* The frames s[i..] occur among the events emitted[j..], in that order
RECURSIVE InEmittedOrder(_, _, _)
InEmittedOrder(s, i, j) ==
  IF i > Len(s) THEN TRUE
  ELSE IF j > Len(emitted) THEN FALSE
       ELSE IF s[i] = emitted[j].event
            THEN InEmittedOrder(s, i + 1, j + 1)
            ELSE InEmittedOrder(s, i, j + 1)

\* C14: each peer is sent its events in the order the debug session emitted
\* them: of two events sent to a peer, the one emitted first is sent first.
C14_PerPeerOrder ==
  \A p \in Peers : InEmittedOrder(outbox[p], 1, 1)

\* A peer that was sent two different events, the second emitted after an event
\* it missed; another peer was sent all three
C14_Witness ==
  \E p, q \in Peers :
    /\ Len(emitted) = 3 /\ Len(outbox[q]) = 3
    /\ Len(outbox[p]) = 2 /\ outbox[p][1] # outbox[p][2]
    /\ outbox[p] = << emitted[2].event, emitted[3].event >>

\* The Session State Cache proper
Cache == <<debuggerState.isStopped, debuggerState.currentThreadId, debuggerState.stopReason>>

\* C15: no command mutates the Session State Cache. isStopped, currentThreadId
\* and stopReason change only in a step that handles a received event; a step
\* in which a response is received or a request's timer is cleared or fires
\* leaves debuggerState as it was; a sendRequest call leaves the cache as it
\* was, and the connection fields too unless it starts a connection attempt.
C15_CommandsLeaveCache ==
  [][/\ Cache' # Cache => \E c \in Calls : ReceiveEvent(c)
     /\ (\/ answered' # answered
         \/ \E r \in Requests : req[r].timer # Null /\ req'[r].timer = Null)
          => debuggerState' = debuggerState
     /\ \A r \in Requests :
          (req[r].pc = "idle" /\ req'[r].pc # "idle") =>
            /\ Cache' = Cache
            /\ conn' = conn => debuggerState' = debuggerState]_vars

\* The session is known stopped from an event, while one request has been
\* resolved by its response and another rejected by its timeout
C15_Witness ==
  /\ debuggerState.isStopped /\ debuggerState.currentThreadId = 2
  /\ \E r, q \in Requests :
       /\ req[r].pc = "resolved" /\ answered[r].by = r
       /\ req[q].outcome = "Request timeout"

\* C16: when a socket closes the connecting role becomes disconnected and
\* starts no connection attempt in that step; a connection attempt (a
\* connectToExtension call, a new socket) starts only in run() and in a
\* sendRequest call made while the transport is not connected, and a sendRequest
\* call made while disconnected does start one.
C16_NoProactiveReconnect ==
  [][/\ (\E c \in Calls : sock[c] # "closed" /\ sock'[c] = "closed") =>
          /\ debuggerState'.connectionStatus = "disconnected"
          /\ debuggerState'.connectionPort = Null
          /\ \A c \in Calls :
               /\ conn'[c].pc = "active" => conn[c].pc = "active"
               /\ sock'[c] = "connecting" => sock[c] = "connecting"
     /\ (\E c \in Calls :
           \/ sock[c] # "connecting" /\ sock'[c] = "connecting"
           \/ conn[c].pc # "active" /\ conn'[c].pc = "active") =>
          \/ runPc = "init"
          \/ \E r \in Requests :
               /\ req[r].pc = "idle" /\ req'[r].pc # "idle"
               /\ ws = Null \/ sock[ws] # "open"
     /\ \A r \in Requests :
          (/\ req[r].pc = "idle" /\ req'[r].pc # "idle"
           /\ debuggerState.connectionStatus = "disconnected") => conn'[r].pc # "idle"]_vars

\* The first connection was open and has closed; the next request has
\* reconnected and been transmitted on the new socket
C16_Witness ==
  /\ conn[0].pc = "resolved" /\ sock[0] = "closed"
  /\ conn[1].pc = "resolved" /\ sock[1] = "open" /\ req[1].sent = 1
  /\ debuggerState.connectionStatus = "connected"

\* ------------------------------------------------------------- the codec

\* JavaScript values, by kind
Num(n) == [k |-> "number", v |-> n]
Infinity == [k |-> "infinity"]
NaN == [k |-> "nan"]
Str(x) == [k |-> "string", v |-> x]
Bool(b) == [k |-> "boolean", v |-> b]
JsNull == [k |-> "null"]
Undefined == [k |-> "undefined"]
Obj(f) == [k |-> "object", f |-> f]
Arr(e) == [k |-> "array", e |-> e]

\* JSON.parse(JSON.stringify(v)): a non-finite number is written as null, a
\* property whose value is undefined is left out, an undefined array element
\* is written as null
RECURSIVE ParseStringify(_)
ParseStringify(v) ==
  CASE v.k \in {"infinity", "nan"} -> JsNull
    [] v.k = "object" ->
         Obj([key \in {x \in DOMAIN v.f : v.f[x].k # "undefined"} |-> ParseStringify(v.f[key])])
    [] v.k = "array" ->
         Arr([i \in DOMAIN v.e |-> IF v.e[i].k = "undefined" THEN JsNull
                                   ELSE ParseStringify(v.e[i])])
    [] OTHER -> v

\* zod schemas: z.number(), z.string(), z.boolean(), z.literal(x), z.array(s),
\* z.object(fields), each with or without .optional()
zNumber(opt) == [t |-> "number", opt |-> opt]
zString(opt) == [t |-> "string", opt |-> opt]
zBoolean(opt) == [t |-> "boolean", opt |-> opt]
zLiteral(x) == [t |-> "literal", lit |-> x, opt |-> FALSE]
zArray(of, opt) == [t |-> "array", of |-> of, opt |-> opt]
zObject(fields, opt) == [t |-> "object", fields |-> fields, opt |-> opt]

Field(v, key) == IF key \in DOMAIN v.f THEN v.f[key] ELSE Undefined

\* schema.safeParse(v).success: z.number() takes every number but NaN
RECURSIVE Conforms(_, _)
Conforms(schema, v) ==
  IF v.k = "undefined" THEN schema.opt
  ELSE CASE schema.t = "number" -> v.k \in {"number", "infinity"}
         [] schema.t = "string" -> v.k = "string"
         [] schema.t = "boolean" -> v.k = "boolean"
         [] schema.t = "literal" -> v.k = "string" /\ v.v = schema.lit
         [] schema.t = "array" ->
              v.k = "array" /\ \A i \in DOMAIN v.e : Conforms(schema.of, v.e[i])
         [] OTHER ->
              /\ v.k = "object"
              /\ \A key \in DOMAIN schema.fields : Conforms(schema.fields[key], Field(v, key))

\* schema.safeParse(v).data: the properties the schema names; a property that
\* is undefined counts as absent
RECURSIVE Data(_, _)
Data(schema, v) ==
  CASE schema.t = "object" ->
         Obj([key \in {x \in DOMAIN schema.fields : Field(v, x).k # "undefined"} |->
                Data(schema.fields[key], v.f[key])])
    [] schema.t = "array" -> Arr([i \in DOMAIN v.e |-> Data(schema.of, v.e[i])])
    [] OTHER -> v

\* protocol.ts, with the types of the fields
executeLldbCommandRequestZ ==
  zObject([type |-> zLiteral("request"), command |-> zLiteral("executeLldbCommand"),
           lldb_command |-> zString(FALSE), id |-> zString(FALSE),
           frameId |-> zNumber(TRUE)], FALSE)
getStackTraceRequestZ ==
  zObject([type |-> zLiteral("request"), command |-> zLiteral("getStackTrace"),
           threadId |-> zNumber(FALSE), id |-> zString(FALSE)], FALSE)
getVariablesRequestZ ==
  zObject([type |-> zLiteral("request"), command |-> zLiteral("getVariables"),
           variablesReference |-> zNumber(FALSE), id |-> zString(FALSE)], FALSE)
executeLldbCommandResponseZ ==
  zObject([type |-> zLiteral("response"), command |-> zLiteral("executeLldbCommand"),
           success |-> zBoolean(FALSE), result |-> zString(TRUE),
           error |-> zString(TRUE), id |-> zString(FALSE)], FALSE)
getStackTraceResponseZ ==
  zObject([type |-> zLiteral("response"), command |-> zLiteral("getStackTrace"),
           success |-> zBoolean(FALSE),
           stackFrames |->
             zArray(zObject([id |-> zNumber(FALSE), name |-> zString(FALSE),
                             source |-> zObject([name |-> zString(TRUE),
                                                 path |-> zString(TRUE)], TRUE),
                             line |-> zNumber(FALSE), column |-> zNumber(FALSE)], FALSE),
                    TRUE),
           error |-> zString(TRUE), id |-> zString(FALSE)], FALSE)
getVariablesResponseZ ==
  zObject([type |-> zLiteral("response"), command |-> zLiteral("getVariables"),
           success |-> zBoolean(FALSE),
           variables |->
             zArray(zObject([name |-> zString(FALSE), value |-> zString(FALSE),
                             type |-> zString(TRUE),
                             variablesReference |-> zNumber(FALSE)], FALSE),
                    TRUE),
           error |-> zString(TRUE), id |-> zString(FALSE)], FALSE)
debuggerStoppedEventZ ==
  zObject([type |-> zLiteral("event"), event |-> zLiteral("debuggerStopped"),
           reason |-> zString(FALSE), threadId |-> zNumber(FALSE),
           description |-> zString(TRUE), allThreadsStopped |-> zBoolean(TRUE)], FALSE)
debuggerContinuedEventZ ==
  zObject([type |-> zLiteral("event"), event |-> zLiteral("debuggerContinued"),
           threadId |-> zNumber(FALSE), allThreadsContinued |-> zBoolean(TRUE)], FALSE)

\* messageSchema: the union tries its members in this order
messageSchemaZ ==
  << executeLldbCommandRequestZ, getStackTraceRequestZ, getVariablesRequestZ,
     executeLldbCommandResponseZ, getStackTraceResponseZ, getVariablesResponseZ,
     debuggerStoppedEventZ, debuggerContinuedEventZ >>

\* messageSchema.safeParse(v)
safeParse(v) ==
  LET ok == { i \in DOMAIN messageSchemaZ : Conforms(messageSchemaZ[i], v) } IN
  IF ok = {} THEN [success |-> FALSE]
  ELSE [success |-> TRUE,
        data |-> Data(messageSchemaZ[CHOOSE i \in ok : \A j \in ok : i <= j], v)]

\* The values a field is given: numbers finite and not, strings, and for an
\* optional field nothing at all or undefined
Numbers == {Num(1), Num(2), Infinity, NaN}
NoField == [x \in {} |-> x]
Maybe(key, values) == {NoField, key :> Undefined} \cup { key :> v : v \in values }

\* Messages of the three kinds as a sender builds them
RequestValues ==
  { Obj([type |-> Str("request"), command |-> Str("getStackTrace"),
         threadId |-> n, id |-> Str("a")]) : n \in Numbers }
  \cup { Obj([type |-> Str("request"), command |-> Str("getVariables"),
              variablesReference |-> n, id |-> Str("a")]) : n \in Numbers }
  \cup { Obj([type |-> Str("request"), command |-> Str("executeLldbCommand"),
              lldb_command |-> Str("bt"), id |-> Str("a")] @@ f)
           : f \in Maybe("frameId", Numbers) }

VariableValues ==
  { Obj([name |-> Str("x"), value |-> Str("1"), variablesReference |-> n] @@ t)
      : n \in Numbers, t \in Maybe("type", {Str("int")}) }

FrameValues ==
  { Obj([id |-> Num(1), name |-> Str("main"), line |-> n, column |-> Num(1)] @@ src)
      : n \in Numbers,
        src \in Maybe("source", { Obj(p) : p \in Maybe("path", {Str("/m.c")}) }) }

ResponseValues ==
  { Obj([type |-> Str("response"), command |-> Str("executeLldbCommand"),
         success |-> Bool(b), id |-> Str("a")] @@ r @@ e)
      : b \in BOOLEAN, r \in Maybe("result", {Str("out")}),
        e \in Maybe("error", {Str("bad expression")}) }
  \cup { Obj([type |-> Str("response"), command |-> Str("getVariables"),
              success |-> Bool(TRUE), id |-> Str("a")] @@ vs)
           : vs \in Maybe("variables", {Arr(<< >>)} \cup { Arr(<< x >>) : x \in VariableValues }) }
  \cup { Obj([type |-> Str("response"), command |-> Str("getStackTrace"),
              success |-> Bool(TRUE), id |-> Str("a")] @@ fs)
           : fs \in Maybe("stackFrames", { Arr(<< x >>) : x \in FrameValues }) }

EventValues ==
  { Obj([type |-> Str("event"), event |-> Str("debuggerStopped"),
         reason |-> Str(x), threadId |-> n] @@ d @@ a)
      : x \in Reasons \cup {"unknown"}, n \in Numbers,
        d \in Maybe("description", {Str("hit")}),
        a \in Maybe("allThreadsStopped", {Bool(TRUE)}) }
  \cup { Obj([type |-> Str("event"), event |-> Str("debuggerContinued"), threadId |-> n] @@ a)
           : n \in Numbers, a \in Maybe("allThreadsContinued", {Bool(TRUE)}) }

\* The valid messages: those the schema accepts
ValidMessages == { v \in RequestValues \cup ResponseValues \cup EventValues : safeParse(v).success }

CodecInit ==
  /\ InitClient /\ port = TargetPort
  /\ InitExt
  /\ \E v \in ValidMessages : codec = [pc |-> "built", message |-> v]

\* JSON.stringify(message), and the frame is sent
Serialize ==
  /\ codec.pc = "built"
  /\ codec' = [codec EXCEPT !.pc = "sent"]
  /\ UNCHANGED <<cvars, age, hvars, clients, peer, session, rx, outbox, emitted, server>>

\* The receiver's JSON.parse and messageSchema.safeParse
Parse ==
  /\ codec.pc = "sent"
  /\ codec' = [pc |-> "parsed", message |-> codec.message,
               parsed |-> safeParse(ParseStringify(codec.message))]
  /\ UNCHANGED <<cvars, age, hvars, clients, peer, session, rx, outbox, emitted, server>>

CodecNext == Serialize \/ Parse

\* One message from its sender to its receiver
CodecSpec == CodecInit /\ [][CodecNext]_vars

\* C17: a valid message that has been serialized and parsed is accepted by the
\* schema, and what the schema returns for it equals what it returns for the
\* original: every field is there with its value, a number still a number.
C17_RoundTrip ==
  codec.pc = "parsed" =>
    /\ codec.parsed.success
    /\ codec.parsed.data = safeParse(codec.message).data

\* C18: when the connection timeout of an attempt fires, the attempt counts as
\* failed: the call's retry counter goes up by one and, while it is below
\* MaxRetries, the call stays unsettled and waits RetryDelay for its next
\* attempt.
C18_TimeoutCountsAsFailure ==
  [][\A c \in Calls :
       ConnTimeoutFire(c) =>
         /\ conn'[c].retryCount = conn[c].retryCount + 1
         /\ conn'[c].retryCount < MaxRetries =>
              conn'[c].pc = "active" /\ conn'[c].delay = RetryDelay]_vars

\* C19: when a response arrives whose id has a pending entry, the entry is
\* removed, and the request it belongs to is resolved with the response if
\* success is true and otherwise rejected with exactly the error text the
\* response carries.
C19_SettledByResponse ==
  [][\A c \in Calls, o \in Requests :
       \A m \in ResponseFrames(req[o].id) :
         LET h == responseHandlers[m.id] IN
         (ReceiveResponseFrame(c, o, m) /\ h # 0 /\ req[h].pc = "pending") =>
           /\ responseHandlers'[m.id] = 0
           /\ req'[h].timer = Null
           /\ IF m.success
              THEN req'[h].pc = "resolved" /\ req'[h].value = m
              ELSE req'[h].pc = "rejected" /\ req'[h].outcome = m.error]_vars

\* Request q and the entry it has in the pending-request table are as they were
Untouched(q) ==
  /\ req'[q] = req[q]
  /\ \A i \in Ids : responseHandlers[i] = q => responseHandlers'[i] = q

\* C20: errors are local to the request that triggered them. The timeout of a
\* request leaves every other request, its entry and its timer as they were;
\* the response to a request runs no handler but that request's own, and leaves
\* every other request, its entry and its timer as they were.
C20_ErrorsAreLocal ==
  [][/\ \A r \in Requests :
          RequestTimeoutFire(r) => \A q \in Requests \ {r} : Untouched(q)
     /\ \A c \in Calls, o \in Requests :
          \A m \in ResponseFrames(req[o].id) :
            ReceiveResponseFrame(c, o, m) =>
              /\ responseHandlers[m.id] \in {0, o}
              /\ \A q \in Requests \ {o} : Untouched(q)]_vars

\* ------------------------------------------------------- a stalled session

\* The two roles run in separate processes. This specification follows one of
\* them at a time, with no timer ever due: a debug-session operation that has
\* not completed stays so for as long as the other steps go on.
StallFrames ==
  { [type |-> "request", command |-> "executeLldbCommand", lldb_command |-> "bt", id |-> 1],
    [type |-> "request", command |-> "getStackTrace", threadId |-> 1, id |-> 2] }

StallEvents ==
  { [type |-> "event", event |-> "stopped", body |-> [reason |-> "breakpoint", threadId |-> 1]] }

ListeningNext ==
  \/ \E p \in Peers : PeerConnect(p)
  \/ SessionChange
  \/ \E p \in Peers, data \in StallFrames : PeerFrame(p, data)
  \/ \E t \in 1 .. MaxFrames : OpComplete(t)
  \/ \E message \in StallEvents : AdapterMessage(message)

ConnectingNext ==
  \/ Run
  \/ \E c \in Calls : SockOpen(c)
  \/ \E r \in Requests : SendRequest(r)
  \/ \E c \in Calls, o \in Requests : ReceiveResponse(c, o)
  \/ \E c \in Calls : ReceiveEvent(c)

StallNext ==
  \/ runPc = "init" /\ ListeningNext
  \/ clients = {} /\ ConnectingNext

StallSpec == ExtInit /\ [][StallNext]_vars

\* C21: a stalled debug session stalls only the request that waits on it. While
\* the handler of a request awaits the session: a request that arrives is
\* handled at once (answered, or awaiting its own operation); the completion of
\* another request's operation answers that request; an event is sent to every
\* live open peer; and no step but its own completion changes the stalled
\* handler. In the connecting role, with requests pending, an event that
\* arrives updates the cache and the response to one request settles it and
\* leaves the others pending.
C21_StallIsLocal ==
  [][/\ \A t \in DOMAIN rx :
          (rx[t].awaiting /\ rx'[t].awaiting) =>
            /\ rx'[t] = rx[t]
            /\ Len(rx') = Len(rx) + 1 =>
                 LET n == rx'[Len(rx')] IN
                 ValidRequest(n.frame) => (n.awaiting \/ Len(n.replies) = 1)
            /\ \A u \in DOMAIN rx :
                 (rx[u].awaiting /\ ~rx'[u].awaiting) =>
                   /\ Len(rx'[u].replies) = 1
                   /\ rx'[u].replies[1].id = rx[u].frame.id
            /\ Len(emitted') = Len(emitted) + 1 =>
                 \A p \in clients :
                   peer[p] = "open" =>
                     outbox'[p] = Append(outbox[p], emitted'[Len(emitted')].event)
     /\ \A c \in Calls, m \in EventFrames :
          ReceiveEventFrame(c, m) =>
            /\ debuggerState'.isStopped = (m.event = "debuggerStopped")
            /\ req' = req /\ responseHandlers' = responseHandlers
     /\ \A c \in Calls, o \in Requests :
          \A m \in ResponseFrames(req[o].id) :
            (/\ ReceiveResponseFrame(c, o, m)
             /\ responseHandlers[m.id] = o /\ req[o].pc = "pending") =>
              /\ req'[o].pc \in Settled
              /\ \A q \in Requests \ {o} : req'[q] = req[q]]_vars

\* The handler of the first request still awaits the session; the request that
\* came after it has been answered with its result, and an event broadcast
\* after that has been sent to the peer of both
C21_Witness ==
  /\ Len(rx) = 2 /\ rx[1].awaiting /\ rx[1].peer = rx[2].peer
  /\ ~rx[2].awaiting /\ rx[2].op # "none"
  /\ Len(rx[2].replies) = 1 /\ rx[2].replies[1].success
  /\ Len(emitted) = 1
  /\ outbox[rx[1].peer] = << rx[2].replies[1], emitted[1].event >>

\* --------------------------------------------------- startWebSocketServer

\* Math.floor(Math.random() * 50000) + 10000
Ports == 1 .. MaxPorts

\* tryStart: a port is drawn and new WebSocketServer({ port }) begins to bind
tryStart(B, p) ==
  [B EXCEPT !.pc = "binding", !.port = p, !.attempts = @ + 1]

\* wss.on("error") with EADDRINUSE, had it compared with <= maxRetries
onServerError_oneMore(B) ==
  LET retries == B.retries + 1 IN
  IF retries <= maxRetries
  THEN [B EXCEPT !.retries = retries, !.pc = "waiting"]
  ELSE [B EXCEPT !.retries = retries, !.pc = "failed", !.reported = TRUE]

\* wss.on("error") with EADDRINUSE: retries++, then either wss = undefined and
\* setTimeout(tryStart, 100), or showErrorMessage
onServerError(B) ==
  LET retries == B.retries + 1 IN
  IF retries < maxRetries
  THEN [B EXCEPT !.retries = retries, !.pc = "waiting"]
  ELSE [B EXCEPT !.retries = retries, !.pc = "failed", !.reported = TRUE]

\* activate() has not yet called startWebSocketServer; other processes hold
\* some of the ports
BindInit ==
  /\ InitClient /\ port = TargetPort
  /\ InitPeers
  /\ codec = [pc |-> "none"]
  /\ \E held \in SUBSET Ports :
       server = [pc |-> "init", retries |-> 0, port |-> Null, currentPort |-> Null,
                 inUse |-> held, attempts |-> 0, reported |-> FALSE]

BindUnchanged == UNCHANGED <<cvars, age, hvars, clients, peer, session, rx, outbox, emitted, codec>>

\* startWebSocketServer(): the first tryStart()
StartWebSocketServer ==
  /\ server.pc = "init"
  /\ \E p \in Ports : server' = tryStart(server, p)
  /\ BindUnchanged

\* setTimeout(tryStart, 100) fires
RetryBind ==
  /\ server.pc = "waiting"
  /\ \E p \in Ports : server' = tryStart(server, p)
  /\ BindUnchanged

\* wss.on("listening"): the port was free
BindListening ==
  /\ server.pc = "binding"
  /\ server.port \notin server.inUse
  /\ server' = [server EXCEPT !.pc = "listening", !.currentPort = server.port]
  /\ BindUnchanged

\* wss.on("error") with EADDRINUSE: another process holds the port
BindInUse ==
  /\ server.pc = "binding"
  /\ server.port \in server.inUse
  /\ server' = onServerError(server)
  /\ BindUnchanged

\* wss.on("error") with another error: logged, nothing else
BindOtherError ==
  /\ server.pc = "binding"
  /\ server' = [server EXCEPT !.pc = "errored"]
  /\ BindUnchanged

\* Another process binds or releases a port that this server does not hold
PortChange ==
  /\ \E p \in Ports :
       /\ ~(server.pc = "listening" /\ server.currentPort = p)
       /\ server' = [server EXCEPT !.inUse = IF p \in @ THEN @ \ {p} ELSE @ \cup {p}]
  /\ BindUnchanged

BindNext ==
  \/ StartWebSocketServer
  \/ RetryBind
  \/ BindListening
  \/ BindInUse
  \/ BindOtherError
  \/ PortChange

BindSpec == BindInit /\ [][BindNext]_vars

\* C22: a bind that fails because the port is in use is followed by a retry on
\* a port drawn anew while fewer than maxRetries binds have failed; the
\* maxRetries-th failure stops the retries and reports the failure, which is
\* reported in no other case; once the server listens no bind is attempted any
\* more; and the binds attempted never exceed maxRetries.
C22_BindRetriesWithinBudget ==
  [][/\ server.attempts <= maxRetries /\ server'.attempts <= maxRetries
     /\ (server.pc = "binding" /\ server'.retries = server.retries + 1) =>
          /\ server.port \in server.inUse
          /\ server'.pc = IF server'.retries < maxRetries THEN "waiting" ELSE "failed"
     /\ (server.pc = "waiting" /\ server'.pc # "waiting") =>
          /\ server'.pc = "binding" /\ server'.port \in Ports
          /\ server'.attempts = server.attempts + 1
     /\ server'.reported <=>
          (server'.pc = "failed" /\ server'.retries = maxRetries
                                 /\ server'.attempts = maxRetries)
     /\ server.pc \in {"failed", "listening"} =>
          /\ server'.pc = server.pc
          /\ server'.attempts = server.attempts
          /\ server'.retries = server.retries]_vars

\* Every one of maxRetries binds has failed and the failure has been reported
C22_Witness ==
  /\ server.pc = "failed" /\ server.reported
  /\ server.attempts = maxRetries

\* C23: the live-peer set holds exactly the peers that have connected and whose
\* socket has not closed or failed since. A connection adds its peer; a
\* disconnect removes its peer and no other, sends nothing, and leaves every
\* other socket and every handler as it was.
C23_LivePeers ==
  [][/\ clients' = { p \in Peers : peer'[p] \in {"open", "closing"} }
     /\ \A p \in Peers :
          /\ (peer[p] = "none" /\ peer'[p] = "open") => clients' = clients \cup {p}
          /\ (peer[p] # "closed" /\ peer'[p] = "closed") =>
               /\ clients' = clients \ {p}
               /\ outbox' = outbox /\ rx' = rx /\ emitted' = emitted
               /\ \A q \in Peers \ {p} : peer'[q] = peer[q]]_vars

\* Two peers had connected and the socket of one of them has closed since
C23_Witness ==
  \E p \in Peers, q \in Peers :
    peer[p] = "closed" /\ peer[q] = "open" /\ clients = {q}

\* C24: connectionStatus is "connected" exactly when this.ws refers to an open
\* socket; a callback of an older socket clears neither the handle nor the
\* status of a newer connection.
C24_StatusMatchesSocket ==
  (debuggerState.connectionStatus = "connected") <=> (ws # Null /\ sock[ws] = "open")

\* C25: connectToExtension is never started while an earlier call of it is
\* still unsettled or its socket is still connecting, so at most one connection
\* attempt is in progress at any time.
C25_OneAttemptAtATime ==
  [][\A c \in Calls :
       (conn[c].pc = "idle" /\ conn'[c].pc # "idle") =>
         ~ \E d \in Calls : conn[d].pc = "active" \/ sock[d] = "connecting"]_vars

\* C26: when a connectToExtension call ends in failure, connectionStatus is
\* "disconnected" and not left at "connecting", whatever made it fail.
C26_FailureLeavesDisconnected ==
  [][\A c \in Calls :
       (conn[c].pc # "rejected" /\ conn'[c].pc = "rejected") =>
         debuggerState'.connectionStatus = "disconnected"]_vars

\* C27: connectionPort is null exactly when connectionStatus is "disconnected",
\* and is the target port whenever connectionStatus is "connecting" or
\* "connected".
C27_PortMatchesStatus ==
  /\ (debuggerState.connectionPort = Null) <=>
       (debuggerState.connectionStatus = "disconnected")
  /\ debuggerState.connectionStatus \in {"connecting", "connected"} =>
       debuggerState.connectionPort = port

\* The frames put on the socket of peer p in the step
NewFrames(p) == SubSeq(outbox'[p], Len(outbox[p]) + 1, Len(outbox'[p]))

\* The handler of received frame t sends its reply in the step
Replies(t) ==
  /\ t \in DOMAIN rx'
  /\ rx'[t].replies # << >>
  /\ t \in DOMAIN rx => rx[t].replies = << >>

\* C28: a response is sent only to the peer whose request it answers: every
\* response put on a peer's socket is the reply of a handler whose request came
\* from that peer, while an event is put on the socket of every live open peer.
C28_ResponseToRequester ==
  [][\A p \in Peers :
       /\ \A i \in 1 .. Len(NewFrames(p)) :
            NewFrames(p)[i].type = "response" =>
              \E t \in DOMAIN rx' :
                /\ Replies(t) /\ rx'[t].peer = p
                /\ rx'[t].replies = << NewFrames(p)[i] >>
       /\ (Len(emitted') = Len(emitted) + 1 /\ p \in clients /\ peer[p] = "open") =>
            NewFrames(p) = << emitted'[Len(emitted')].event >>]_vars

\* Two peers are connected; one has sent a request and been answered, and an
\* event has then been broadcast: the other peer has been sent the event alone
C28_Witness ==
  \E p \in Peers, q \in Peers :
    /\ p # q
    /\ peer[p] = "open" /\ peer[q] = "open" /\ clients = {p, q}
    /\ Len(rx) = 1 /\ rx[1].peer = p /\ Len(rx[1].replies) = 1
    /\ Len(emitted) = 1
    /\ outbox[p] = << rx[1].replies[1], emitted[1].event >>
    /\ outbox[q] = << emitted[1].event >>

\* C29: the keys of the pending-request table are exactly the ids of the
\* requests that have been registered and are not yet settled: no entry remains
\* once its request has been resolved or rejected, and no unsettled request is
\* without its entry.
C29_TableIsPendingRequests ==
  \A i \in Ids :
    responseHandlers[i] # 0 <=> \E r \in Requests : req[r].pc = "pending" /\ req[r].id = i

\* The connection that carried request r is lost
LostConnection(r) == req[r].sent # Null /\ sock[req[r].sent] = "closed"

\* C30: losing the connection neither settles nor removes pending requests. The
\* step in which a socket closes or fails leaves the pending-request table and
\* every pending request as they were, and a pending request whose connection
\* is lost is settled only by its own timeout: rejected with the timeout error
\* when its timer is due, its entry removed then.
C30_PendingSurviveLoss ==
  [][/\ (\E c \in Calls : sock[c] # "closed" /\ sock'[c] = "closed") =>
          /\ responseHandlers' = responseHandlers
          /\ \A r \in Requests : req[r].pc = "pending" => req'[r] = req[r]
     /\ \A r \in Requests :
          (req[r].pc = "pending" /\ LostConnection(r) /\ req'[r].pc # "pending") =>
            /\ req[r].timer = 0
            /\ req'[r].pc = "rejected" /\ req'[r].outcome = "Request timeout"]_vars

\* C31: every call of connectToExtension eventually settles. It is resolved in
\* the step in which its socket opens; it is rejected in a step in which its
\* socket fails, its connection timeout is due or its retry budget is used up;
\* and a call that is under way is eventually resolved or rejected.
C31_ConnectSettles ==
  /\ [][\A c \in Calls :
          /\ (conn[c].pc = "active" /\ conn'[c].pc = "resolved") =>
               sock[c] = "connecting" /\ sock'[c] = "open"
          /\ (conn[c].pc = "active" /\ conn'[c].pc = "rejected") =>
               \/ sock[c] # "closed" /\ sock'[c] = "closed"
               \/ conn[c].timer = 0
               \/ conn'[c].retryCount = MaxRetries
          /\ conn[c].pc \in Settled => conn'[c].pc = conn[c].pc]_vars
  /\ \A c \in Calls : (conn[c].pc = "active") ~> (conn[c].pc \in Settled)

\* The call made by run() was rejected by its connection timeout, which left
\* its socket closing, and the call made by a later request was resolved when
\* its socket opened
C31_Witness ==
  /\ conn[0].pc = "rejected" /\ sock[0] = "closing"
  /\ \E c \in Calls \ {0} : conn[c].pc = "resolved" /\ sock[c] = "open"
====
